---- MODULE Spec2Model ----
(***************************************************************************)
(* Model of kanisa/optim/core/BaseSolver.py: the BaseSolver lifecycle      *)
(* (constructor, build, compute, check_constraints).                       *)
(*                                                                         *)
(* Python values are records [t, n, v]: t is the Python type, n an integer *)
(* payload (the value of an int, the identity of a function), v the items  *)
(* of a list or tuple.  Real numbers handed to constraint functions are    *)
(* integers counting units of 1e-7, so 1e-6 is 10 and 1.0 is 10^7.         *)
(***************************************************************************)
EXTENDS Integers, Sequences, FiniteSets, TLC

VARIABLES hyper_params, params, max_iter, verbosity, seed,
          objective, bounds, dim, ineq_constraints, eq_constraints,
          call, hist

vars == <<hyper_params, params, max_iter, verbosity, seed,
          objective, bounds, dim, ineq_constraints, eq_constraints,
          call, hist>>

hyper == <<params, max_iter, verbosity, seed>>
problem == <<objective, bounds, dim, ineq_constraints, eq_constraints>>

\* ------------------------------------------------------------------
\* Bounds of the model
\* ------------------------------------------------------------------
MaxBounds == 3
MaxCons == 2

\* ------------------------------------------------------------------
\* Python values
\* ------------------------------------------------------------------
Val(t, n, v) == [t |-> t, n |-> n, v |-> v]
None == Val("NoneType", 0, <<>>)
PyInt(k) == Val("int", k, <<>>)
PyInf == Val("float", 1, <<>>)
PyList(s) == Val("list", 0, s)
PyTuple(s) == Val("tuple", 0, s)
PyFunc(k) == Val("function", k, <<>>)
PyDict(d) == [t |-> "dict", d |-> d]
NoDict == [t |-> "NoneType", d |-> <<>>]

callable(v) == v.t = "function"
HasLen(v) == v.t \in {"list", "tuple"}
Iterable(v) == v.t \in {"list", "tuple"}
len(v) == Len(v.v)
Truthy(v) ==
    CASE v.t = "NoneType" -> FALSE
      [] v.t = "int" -> v.n # 0
      [] v.t \in {"list", "tuple"} -> Len(v.v) > 0
      [] OTHER -> TRUE
OrEmptyList(v) == IF Truthy(v) THEN v ELSE PyList(<<>>)

\* The functions handed to the solver, and the non-callable stand-in.
UNIT == 10^7
F_SQUARE == PyFunc(1)   \* f(x) = x[0]**2
G_XM1 == PyFunc(2)      \* g(x) = x[0] - 1
H_X == PyFunc(3)        \* h(x) = x[0]
NotCallable == PyInt(5)
Apply(fn, x) ==
    CASE fn = G_XM1 -> x - UNIT
      [] fn = H_X -> x
      [] OTHER -> (x * x) \div UNIT
abs(r) == IF r < 0 THEN 0 - r ELSE r
\* 1e-6, the equality tolerance of check_constraints
TOL == UNIT \div 1000000

SeqsUpTo(S, n) == UNION {[1..k -> S] : k \in 0..n}

\* ------------------------------------------------------------------
\* Class attributes
\* ------------------------------------------------------------------
DEFAULTS ==
    [max_iter |-> PyInt(200), max_stall_iter |-> PyInf,
     verbosity |-> PyInt(1), seed |-> None]
REQUIRED == <<"objective", "bounds">>

\* (variant) the defaults win over the supplied values
DictMerge_defaults_win(a, b) ==
    [k \in (DOMAIN a) \cup (DOMAIN b) |-> IF k \in DOMAIN a THEN a[k] ELSE b[k]]

\* {**DEFAULTS, **hyper_params}
DictMerge(a, b) ==
    [k \in (DOMAIN a) \cup (DOMAIN b) |-> IF k \in DOMAIN b THEN b[k] ELSE a[k]]
\* hyper_params = hyper_params or {}
OrEmptyDict(hp) == IF hp.t = "dict" /\ DOMAIN hp.d # {} THEN hp.d ELSE <<>>
MergedParams(hp) == DictMerge(DEFAULTS, OrEmptyDict(hp))

\* ------------------------------------------------------------------
\* The record of the last call (its arguments and its outcome)
\* ------------------------------------------------------------------
Call(op, o, b, i, e, x, signal, msg, diag, evals) ==
    [op |-> op, objective |-> o, bounds |-> b,
     ineq_constraints |-> i, eq_constraints |-> e, x |-> x,
     signal |-> signal, msg |-> msg, diag |-> diag, evals |-> evals]

\* The stored problem specification as one record.
Stored ==
    [objective |-> objective, bounds |-> bounds, dim |-> dim,
     ineq_constraints |-> ineq_constraints, eq_constraints |-> eq_constraints]

\* ------------------------------------------------------------------
\* build(objective, bounds, ineq_constraints=None, eq_constraints=None)
\* ------------------------------------------------------------------
problem_data(o, b, i, e) ==
    [objective |-> o, bounds |-> b,
     ineq_constraints |-> OrEmptyList(i), eq_constraints |-> OrEmptyList(e)]

\* (variant) only the objective is looked at by the required-field check
missing_objective_only(pd) ==
    SelectSeq(<<"objective">>, LAMBDA field : field \notin DOMAIN pd \/ pd[field] = None)

\* the REQUIRED fields that are absent or None
missing(pd) ==
    SelectSeq(REQUIRED, LAMBDA field : field \notin DOMAIN pd \/ pd[field] = None)

\* (variant) an omitted constraint argument keeps the stored constraint list
StoreSpec_keeps_omitted(st, o, b, i, e) ==
    [st EXCEPT !.objective = o, !.bounds = b,
               !.ineq_constraints = IF i = None THEN @ ELSE i,
               !.eq_constraints = IF e = None THEN @ ELSE e]

\* the assignments to self.* made before any compliance check
StoreSpec(st, o, b, i, e) ==
    [st EXCEPT !.objective = o, !.bounds = b,
               !.ineq_constraints = OrEmptyList(i),
               !.eq_constraints = OrEmptyList(e)]

\* (variant) the length of a bound is not looked at
BadPair_no_len(pair) == pair.t \notin {"list", "tuple"}

\* not isinstance(pair, (list, tuple)) or len(pair) != 2
BadPair(pair) == pair.t \notin {"list", "tuple"} \/ len(pair) # 2

\* some element of the sequence is not callable
SomeNotCallable(cs) == \E k \in 1..len(cs) : ~callable(cs.v[k])

Outcome(signal, diag, st) == [signal |-> signal, diag |-> diag, st |-> st]

\* the summary is printed only when verbosity >= 1
Summary(verb) == IF verb.n >= 1 THEN "summary" ELSE "none"

\* the compliance checks of build, in source order, on the stored fields
Compliance(st, verb) ==
    IF ~callable(st.objective) THEN Outcome("False", "objective", st)
    ELSE IF st.bounds.t # "list" THEN Outcome("False", "bounds_list", st)
    ELSE IF \E k \in 1..len(st.bounds) : BadPair(st.bounds.v[k])
         THEN Outcome("False", "bound_pair", st)
    ELSE IF ~Iterable(st.ineq_constraints) THEN Outcome("TypeError", "none", st)
    ELSE IF SomeNotCallable(st.ineq_constraints) THEN Outcome("False", "ineq", st)
    ELSE IF ~Iterable(st.eq_constraints) THEN Outcome("TypeError", "none", st)
    ELSE IF SomeNotCallable(st.eq_constraints) THEN Outcome("False", "eq", st)
    ELSE Outcome("True", Summary(verb), st)

\* the whole of build: its result and the fields it leaves behind
build(st, o, b, i, e, verb) ==
    IF missing(problem_data(o, b, i, e)) # <<>>
    THEN Outcome("False", "missing", st)
    ELSE LET s1 == StoreSpec(st, o, b, i, e)
         IN IF ~HasLen(b)
            THEN Outcome("TypeError", "none", s1)
            ELSE Compliance([s1 EXCEPT !.dim = PyInt(len(b))], verb)

\* ------------------------------------------------------------------
\* compute(objective=None, bounds=None, ineq_constraints=None,
\*         eq_constraints=None)
\* ------------------------------------------------------------------
Raised(signal, msg, diag, st, built) ==
    [signal |-> signal, msg |-> msg, diag |-> diag, st |-> st, built |-> built]

\* (variant) the guard of the execution step is inverted
NoProblemLoaded_inverted(st) == st.objective # None

\* the test "self.objective is None" that guards the execution step
NoProblemLoaded(st) == st.objective = None

\* (variant) the execution step returns instead of raising
Execute_returns(st, diag, built) ==
    IF st.objective = None
    THEN Raised("ValueError", "no_problem_loaded", diag, st, built)
    ELSE Raised("return", "none", diag, st, built)

\* what compute does once the optional rebuild is over
Execute(st, diag, built) ==
    IF NoProblemLoaded(st)
    THEN Raised("ValueError", "no_problem_loaded", diag, st, built)
    ELSE Raised("NotImplementedError", "must_override", diag, st, built)

\* (variant) the rebuild is triggered by any supplied argument
compute_any_argument(st, o, b, i, e, verb) ==
    IF o # None \/ b # None \/ i # None \/ e # None
    THEN LET r == build(st, o, b, i, e, verb)
         IN CASE r.signal = "TypeError" ->
                   Raised("TypeError", "none", r.diag, r.st, "fail")
              [] r.signal = "False" ->
                   Raised("ValueError", "build_failed", r.diag, r.st, "fail")
              [] OTHER -> Execute(r.st, r.diag, "ok")
    ELSE Execute(st, "none", "same")

compute(st, o, b, i, e, verb) ==
    IF o # None
    THEN LET r == build(st, o, b, i, e, verb)
         IN CASE r.signal = "TypeError" ->
                   Raised("TypeError", "none", r.diag, r.st, "fail")
              [] r.signal = "False" ->
                   Raised("ValueError", "build_failed", r.diag, r.st, "fail")
              [] OTHER -> Execute(r.st, r.diag, "ok")
    ELSE Execute(st, "none", "same")

\* ------------------------------------------------------------------
\* check_constraints(x)
\* ------------------------------------------------------------------
Checked(signal, evals) == [signal |-> signal, evals |-> evals]

\* g(x) > 0: an inequality constraint is violated
IneqViolated(g, x) == Apply(g, x) > 0
\* (variant) the tolerance bound itself counts as a violation
EqViolated_strict(h, x) == abs(Apply(h, x)) >= TOL
\* abs(h(x)) > 1e-6: an equality constraint is violated
EqViolated(h, x) == abs(Apply(h, x)) > TOL

RECURSIVE EqLoop(_, _, _, _)
EqLoop(st, x, k, ev) ==
    IF k > len(st.eq_constraints) THEN Checked("True", ev)
    ELSE LET h == st.eq_constraints.v[k]
         IN IF ~callable(h) THEN Checked("TypeError", ev)
            ELSE IF EqViolated(h, x) THEN Checked("False", Append(ev, <<"h", k>>))
            ELSE EqLoop(st, x, k + 1, Append(ev, <<"h", k>>))

\* (variant) every inequality constraint is evaluated before the verdict
IneqLoop_no_stop(st, x, k, ev) ==
    LET n == len(st.ineq_constraints)
        all == [j \in 1..n |-> <<"g", j>>]
    IN IF SomeNotCallable(st.ineq_constraints) THEN Checked("TypeError", ev)
       ELSE IF \E j \in 1..n : IneqViolated(st.ineq_constraints.v[j], x)
            THEN Checked("False", all)
       ELSE IF ~Iterable(st.eq_constraints) THEN Checked("TypeError", all)
       ELSE EqLoop(st, x, 1, all)

RECURSIVE IneqLoop(_, _, _, _)
IneqLoop(st, x, k, ev) ==
    IF k > len(st.ineq_constraints)
    THEN IF ~Iterable(st.eq_constraints) THEN Checked("TypeError", ev)
         ELSE EqLoop(st, x, 1, ev)
    ELSE LET g == st.ineq_constraints.v[k]
         IN IF ~callable(g) THEN Checked("TypeError", ev)
            ELSE IF IneqViolated(g, x) THEN Checked("False", Append(ev, <<"g", k>>))
            ELSE IneqLoop(st, x, k + 1, Append(ev, <<"g", k>>))

check_constraints(st, x) ==
    IF ~Iterable(st.ineq_constraints) THEN Checked("TypeError", <<>>)
    ELSE IneqLoop(st, x, 1, <<>>)

\* ------------------------------------------------------------------
\* Inputs
\* ------------------------------------------------------------------
\* elements of a bounds list: (0, 1), [1, 0], (0, 1, 2) and the number 3
PairT == PyTuple(<<PyInt(0), PyInt(1)>>)
PairL == PyList(<<PyInt(1), PyInt(0)>>)
Triple == PyTuple(<<PyInt(0), PyInt(1), PyInt(2)>>)
Scalar == PyInt(3)

\* lists of well-formed pairs, and lists holding one malformed element
GoodBounds == {PyList(s) : s \in SeqsUpTo({PairT, PairL}, MaxBounds)}
BadBounds ==
    {PyList(s) : s \in UNION {{<<bad>>, <<PairT, bad>>, <<bad, PairL>>} :
                                bad \in {Triple, Scalar}}}
\* a number (no len) and a tuple of pairs (a len, but not a list)
NoLenBounds == PyInt(5)
TupleBounds == PyTuple(<<PairT>>)

\* constraint arguments: omitted, not a sequence, lists of callables, and
\* lists holding a non-callable
GoodCons == {PyList(s) : s \in SeqsUpTo({G_XM1, H_X}, MaxCons)}
BadCons ==
    {PyList(s) : s \in {<<NotCallable>>, <<G_XM1, NotCallable>>,
                           <<NotCallable, H_X>>}}
ConsArgs == {None, NotCallable} \cup GoodCons \cup BadCons

Args(o, b, i, e) ==
    [objective |-> o, bounds |-> b, ineq_constraints |-> i, eq_constraints |-> e]

\* The argument tuples of build and compute: each family varies one or two
\* arguments over their full range and holds the others to a few values.
ProblemArgs ==
    {Args(F_SQUARE, b, None, None) : b \in GoodBounds \cup BadBounds \cup {TupleBounds}}
    \cup {Args(F_SQUARE, PyList(<<PairT>>), i, PyList(<<H_X>>)) : i \in ConsArgs}
    \cup {Args(F_SQUARE, PyList(<<PairT>>), None, e) : e \in ConsArgs}
    \cup {Args(o, b, i, e) :
            o \in {F_SQUARE, NotCallable},
            b \in {NoLenBounds, PyList(<<PairT>>), PyList(<<Triple>>)},
            i \in {None, PyList(<<NotCallable>>)},
            e \in {None, PyList(<<NotCallable>>)}}
    \cup {Args(None, b, i, None) :
            b \in {None, PyList(<<PairT>>)}, i \in {None, PyList(<<G_XM1>>)}}
    \cup {Args(o, None, None, None) : o \in {F_SQUARE, NotCallable}}

\* x[0], in units of 1e-7: -1e-5, 0, 1e-7, 1e-6, 1e-5, 1.0 and 2.0
XS == {0 - 100, 0, 1, 10, 100, UNIT, 2 * UNIT}

\* configurations handed to the constructor
HyperParams ==
    {NoDict, PyDict([verbosity |-> PyInt(0)])}

\* ------------------------------------------------------------------
\* The state machine
\* ------------------------------------------------------------------
NoCall(op) == Call(op, None, None, None, None, 0, "none", "none", "none", <<>>)

\* __init__(hyper_params=None)
Construct(hp) ==
    /\ hyper_params = hp
    /\ params = MergedParams(hp)
    /\ max_iter = MergedParams(hp)["max_iter"]
    /\ verbosity = MergedParams(hp)["verbosity"]
    /\ seed = MergedParams(hp)["seed"]
    /\ objective = None
    /\ bounds = None
    /\ dim = None
    /\ ineq_constraints = PyList(<<>>)
    /\ eq_constraints = PyList(<<>>)
    /\ call = NoCall("__init__")
    /\ hist = [last |-> "none", ever |-> FALSE]

Init == \E hp \in HyperParams : Construct(hp)

SetStored(st) ==
    /\ objective' = st.objective
    /\ bounds' = st.bounds
    /\ dim' = st.dim
    /\ ineq_constraints' = st.ineq_constraints
    /\ eq_constraints' = st.eq_constraints

\* (variant) build writes the dimension over max_iter
Build_overwrites_max_iter(a) ==
    LET r == build(Stored, a.objective, a.bounds, a.ineq_constraints,
                   a.eq_constraints, verbosity)
    IN /\ SetStored(r.st)
       /\ call' = Call("build", a.objective, a.bounds, a.ineq_constraints,
                       a.eq_constraints, 0, r.signal, "none", r.diag, <<>>)
       /\ hist' = [last |-> IF r.signal = "True" THEN "ok" ELSE "fail",
                   ever |-> hist.ever \/ r.signal = "True"]
       /\ max_iter' = r.st.dim
       /\ UNCHANGED <<hyper_params, params, verbosity, seed>>

Build(a) ==
    LET r == build(Stored, a.objective, a.bounds, a.ineq_constraints,
                   a.eq_constraints, verbosity)
    IN /\ SetStored(r.st)
       /\ call' = Call("build", a.objective, a.bounds, a.ineq_constraints,
                       a.eq_constraints, 0, r.signal, "none", r.diag, <<>>)
       /\ hist' = [last |-> IF r.signal = "True" THEN "ok" ELSE "fail",
                   ever |-> hist.ever \/ r.signal = "True"]
       /\ UNCHANGED <<hyper_params, hyper>>

Compute(a) ==
    LET r == compute(Stored, a.objective, a.bounds, a.ineq_constraints,
                     a.eq_constraints, verbosity)
    IN /\ SetStored(r.st)
       /\ call' = Call("compute", a.objective, a.bounds, a.ineq_constraints,
                       a.eq_constraints, 0, r.signal, r.msg, r.diag, <<>>)
       /\ hist' = [last |-> IF r.built = "same" THEN hist.last ELSE r.built,
                   ever |-> hist.ever \/ r.built = "ok"]
       /\ UNCHANGED <<hyper_params, hyper>>

\* (variant) check_constraints consumes the inequality constraints
CheckConstraints_consumes(x) ==
    LET r == check_constraints(Stored, x)
    IN /\ call' = Call("check_constraints", None, None, None, None, x,
                       r.signal, "none", "none", r.evals)
       /\ ineq_constraints' = PyList(<<>>)
       /\ UNCHANGED <<hyper_params, hyper, objective, bounds, dim,
                      eq_constraints, hist>>

CheckConstraints(x) ==
    LET r == check_constraints(Stored, x)
    IN /\ call' = Call("check_constraints", None, None, None, None, x,
                       r.signal, "none", "none", r.evals)
       /\ UNCHANGED <<hyper_params, hyper, problem, hist>>

Next ==
    \/ \E a \in ProblemArgs : Build(a)
    \/ \E a \in ProblemArgs : Compute(a)
    \/ \E x \in XS : CheckConstraints(x)

Spec == Init /\ [][Next]_vars

\* ------------------------------------------------------------------
\* A second specification: every configuration of the constructor, and a
\* few problems
\* ------------------------------------------------------------------
\* the value supplied for each option (None stands for "not supplied" here)
OptionValues ==
    [max_iter : {None, PyInt(50)},
     max_stall_iter : {None, PyInt(10)},
     verbosity : {None, PyInt(0), PyInt(2)},
     seed : {None, PyInt(42)},
     objective : {None, F_SQUARE},
     bounds : {None, PyList(<<PairT>>)}]
\* the dict holding exactly the supplied keys
DictOf(r) == [k \in {key \in DOMAIN r : r[key] # None} |-> r[k]]
HyperConfigs == {NoDict} \cup {PyDict(DictOf(r)) : r \in OptionValues}

HyperArgs ==
    {Args(F_SQUARE, PyList(<<PairT>>), None, None),
     Args(F_SQUARE, PyList(<<PairT, PairL>>), PyList(<<G_XM1>>), PyList(<<H_X>>)),
     Args(NotCallable, PyList(<<PairT>>), None, None),
     Args(F_SQUARE, PyList(<<Triple>>), None, None),
     Args(None, None, None, None)}
HyperXS == {0, 2 * UNIT}

InitHyper == \E hp \in HyperConfigs : Construct(hp)

NextHyper ==
    \/ \E a \in HyperArgs : Build(a)
    \/ \E a \in HyperArgs : Compute(a)
    \/ \E x \in HyperXS : CheckConstraints(x)

SpecHyper == InitHyper /\ [][NextHyper]_vars

\* ------------------------------------------------------------------
\* Properties
\* ------------------------------------------------------------------
EmptyList == PyList(<<>>)

\* the stored problem spec is entirely absent
SpecAbsent ==
    /\ objective = None
    /\ bounds = None
    /\ dim = None
    /\ ineq_constraints = EmptyList
    /\ eq_constraints = EmptyList

IsPair(pair) == pair.t \in {"list", "tuple"} /\ Len(pair.v) = 2
CallableList(cs) == cs.t = "list" /\ \A k \in 1..Len(cs.v) : cs.v[k].t = "function"

\* the stored problem spec is fully valid
SpecValid ==
    /\ objective.t = "function"
    /\ bounds.t = "list"
    /\ \A k \in 1..Len(bounds.v) : IsPair(bounds.v[k])
    /\ dim = PyInt(Len(bounds.v))
    /\ CallableList(ineq_constraints)
    /\ CallableList(eq_constraints)

\* C1: a build call that returns failure leaves objective, bounds, dim,
\* ineq_constraints and eq_constraints exactly as they were before the call.
C1_FailedBuildKeepsSpec ==
    [][(call'.op = "build" /\ call'.signal = "False") => UNCHANGED problem]_vars

\* C2: a compute call whose implicit build fails, made after a successful
\* build, raises the build failure and leaves the stored problem spec as the
\* successful build left it.
C2_FailedRebuildKeepsSpec ==
    [][(/\ hist.last = "ok"
        /\ call'.op = "compute"
        /\ call'.objective # None
        /\ call'.msg = "build_failed")
       => (call'.signal = "ValueError" /\ UNCHANGED problem)]_vars

\* C3: in every reachable state the stored problem spec is entirely absent or
\* fully valid, and it is absent as long as no build has returned success.
C3_AbsentOrValid ==
    /\ SpecAbsent \/ SpecValid
    /\ ~hist.ever => SpecAbsent

\* C4: as long as no build has ever succeeded, compute called without an
\* objective fails with the "no problem loaded" failure and never reaches the
\* execution step.
C4_NeverBuiltIsPrecondition ==
    (call.op = "compute" /\ call.objective = None /\ ~hist.ever)
        => (call.signal = "ValueError" /\ call.msg = "no_problem_loaded")

\* C5: on a lifecycle on which build was never called, compute without an
\* objective fails with the precondition failure, not the unimplemented
\* signal, and the lifecycle stays unbuilt.
C5_FreshComputeIsPrecondition ==
    (call.op = "compute" /\ call.objective = None /\ hist.last = "none")
        => /\ call.signal = "ValueError"
           /\ call.msg = "no_problem_loaded"
           /\ SpecAbsent
           /\ ~hist.ever

C5_Witness ==
    /\ call.op = "compute"
    /\ call.objective = None
    /\ call.bounds # None
    /\ call.ineq_constraints # None
    /\ hist.last = "none"
    /\ call.msg = "no_problem_loaded"

\* C6: compute on a lifecycle whose most recent build succeeded ends with the
\* unimplemented signal, and compute never returns normally.
C6_BuiltComputeIsUnimplemented ==
    call.op = "compute"
        => /\ call.signal \in {"ValueError", "TypeError", "NotImplementedError"}
           /\ hist.last = "ok" => call.signal = "NotImplementedError"

C6_Witness ==
    /\ call.op = "compute"
    /\ call.objective = None
    /\ hist.last = "ok"
    /\ call.signal = "NotImplementedError"

\* C7: the failure compute raises for a failed implicit rebuild is of another
\* kind than the one it raises when no problem was ever loaded.
C7_DistinctFailureKinds ==
    [][(/\ call.op = "compute" /\ call.msg = "no_problem_loaded"
        /\ call'.op = "compute" /\ call'.msg = "build_failed")
       => call'.signal # call.signal]_vars

\* the arguments of a build call are a compliant problem
SuppliedCallable(c) == c = None \/ CallableList(c)
ArgsValid(c) ==
    /\ c.objective # None
    /\ c.bounds # None
    /\ c.objective.t = "function"
    /\ c.bounds.t = "list"
    /\ \A k \in 1..Len(c.bounds.v) : IsPair(c.bounds.v[k])
    /\ SuppliedCallable(c.ineq_constraints)
    /\ SuppliedCallable(c.eq_constraints)
OrEmpty(c) == IF c = None THEN EmptyList ELSE c

\* C8: build returns success exactly when the arguments are a compliant
\* problem (no ordering of a pair is required); on success the stored
\* objective, bounds and constraint lists are the arguments and dim is the
\* number of bounds pairs.
C8_BuildSuccessIffCompliant ==
    call.op = "build"
        => /\ call.signal = "True" <=> ArgsValid(call)
           /\ call.signal = "True"
                => /\ objective = call.objective
                   /\ bounds = call.bounds
                   /\ ineq_constraints = OrEmpty(call.ineq_constraints)
                   /\ eq_constraints = OrEmpty(call.eq_constraints)
                   /\ dim = PyInt(Len(call.bounds.v))

C8_Witness ==
    /\ call.op = "build"
    /\ call.signal = "True"
    /\ dim = PyInt(3)
    /\ \E k \in 1..3 : bounds.v[k] = PairL

\* C9: a build call whose objective or bounds is null returns failure and
\* changes none of the stored objective, bounds, dim and constraint lists.
C9_MissingFieldKeepsSpec ==
    [][(call'.op = "build" /\ (call'.objective = None \/ call'.bounds = None))
       => (call'.signal = "False" /\ UNCHANGED problem)]_vars

C9_Witness ==
    /\ call.op = "build"
    /\ call.objective # None
    /\ call.bounds = None
    /\ call.signal = "False"
    /\ hist.ever
    /\ SpecValid
    /\ ineq_constraints # EmptyList

\* every stored constraint is satisfied at x
Satisfied(x) ==
    /\ CallableList(ineq_constraints)
    /\ CallableList(eq_constraints)
    /\ \A k \in 1..Len(ineq_constraints.v) : Apply(ineq_constraints.v[k], x) <= 0
    /\ \A k \in 1..Len(eq_constraints.v) :
          /\ Apply(eq_constraints.v[k], x) <= TOL
          /\ Apply(eq_constraints.v[k], x) >= 0 - TOL

\* C10: check_constraints(x) returns true exactly when every stored
\* inequality has g(x) <= 0 and every stored equality has |h(x)| <= 1e-6;
\* with g(x) = x[0] - 1 and h(x) = x[0] it is true at 0.0 and 1e-7 and false
\* at 2.0 and 1e-5, and it is true when both lists are empty.
C10_CheckIffSatisfied ==
    call.op = "check_constraints"
        => /\ call.signal = "True" <=> Satisfied(call.x)
           /\ (ineq_constraints = EmptyList /\ eq_constraints = EmptyList)
                => call.signal = "True"
           /\ (ineq_constraints = PyList(<<G_XM1>>) /\ eq_constraints = PyList(<<H_X>>))
                => /\ call.x \in {0, 1} => call.signal = "True"
                   /\ call.x \in {100, 2 * UNIT} => call.signal = "False"

C10_Witness ==
    /\ call.op = "check_constraints"
    /\ ineq_constraints = PyList(<<G_XM1>>)
    /\ eq_constraints = PyList(<<H_X>>)
    /\ call.x = TOL
    /\ call.signal = "True"

\* C11: check_constraints changes no field of the lifecycle, whatever x is
\* and whatever it returns, and on a lifecycle on which build was never
\* called it returns true.
C11_CheckIsPure ==
    [][call'.op = "check_constraints"
       => /\ UNCHANGED <<hyper, problem>>
          /\ hist'.last = "none" => call'.signal = "True"]_vars

C11_Witness ==
    /\ call.op = "check_constraints"
    /\ call.x = 2 * UNIT
    /\ hist.last = "none"
    /\ call.signal = "True"
    /\ SpecAbsent

\* the options of the constructor and their documented defaults
Options == {"max_iter", "max_stall_iter", "verbosity", "seed"}
Supplied(k) == hyper_params.t = "dict" /\ k \in DOMAIN hyper_params.d
DefaultOf(k) ==
    CASE k = "max_iter" -> PyInt(200)
      [] k = "max_stall_iter" -> PyInf
      [] k = "verbosity" -> PyInt(1)
      [] k = "seed" -> None

\* C12: the merged hyperparameters equal the supplied value at each supplied
\* option and the default (200, unbounded, 1, unset) at each omitted one; a
\* missing or empty configuration gives exactly the defaults.
C12_MergeOverridesSupplied ==
    /\ \A k \in Options :
          params[k] = IF Supplied(k) THEN hyper_params.d[k] ELSE DefaultOf(k)
    /\ (hyper_params.t # "dict" \/ DOMAIN hyper_params.d = {})
          => (DOMAIN params = Options /\ \A k \in Options : params[k] = DefaultOf(k))

C12_Witness ==
    /\ call.op = "__init__"
    /\ Supplied("max_iter")
    /\ Supplied("seed")
    /\ ~Supplied("verbosity")
    /\ ~Supplied("max_stall_iter")
    /\ params["max_iter"] = PyInt(50)
    /\ params["seed"] = PyInt(42)
    /\ params["verbosity"] = PyInt(1)
    /\ params["max_stall_iter"] = PyInf

ProblemFields == {"objective", "bounds", "ineq_constraints", "eq_constraints"}

\* C13: construction never accepts problem data: no key naming a problem
\* field is stored in the hyperparameters, and the stored problem spec is
\* absent after construction.
C13_NoProblemDataAccepted ==
    /\ DOMAIN params \cap ProblemFields = {}
    /\ call.op = "__init__" => SpecAbsent

\* C14: after construction no build, compute or check_constraints call
\* changes the merged hyperparameters or max_iter, verbosity and seed.
C14_HyperParametersImmutable == [][UNCHANGED hyper]_vars

C14_Witness ==
    /\ call.op = "compute"
    /\ call.signal = "NotImplementedError"
    /\ hist.ever
    /\ max_iter = PyInt(50)
    /\ verbosity = PyInt(0)
    /\ seed = PyInt(42)
    /\ params["max_stall_iter"] = PyInt(10)

\* C15: build returns a boolean for every input and never fails with an
\* exception.
C15_BuildReturnsBoolean ==
    call.op = "build" => call.signal \in {"True", "False"}

\* the first rule an argument tuple violates, in the documented order
FirstViolated(c) ==
    IF c.objective.t # "function" THEN "objective"
    ELSE IF c.bounds.t # "list" THEN "bounds_list"
    ELSE IF \E k \in 1..Len(c.bounds.v) : ~IsPair(c.bounds.v[k]) THEN "bound_pair"
    ELSE IF ~SuppliedCallable(c.ineq_constraints) THEN "ineq"
    ELSE "eq"

\* C16: when the arguments of build violate type or shape rules, the failure
\* reported is that of the first violated rule in the order objective,
\* bounds is a list, bounds pairs, inequality constraints, equality
\* constraints.
C16_FirstViolatedRuleReported ==
    (/\ call.op = "build"
     /\ call.objective # None
     /\ call.bounds # None
     /\ ~ArgsValid(call))
        => (call.signal = "False" /\ call.diag = FirstViolated(call))

\* the order in which check_constraints is to evaluate the stored constraints
NumIneq == Len(ineq_constraints.v)
NumEq == Len(eq_constraints.v)
OrderEntry(j) == IF j <= NumIneq THEN <<"g", j>> ELSE <<"h", j - NumIneq>>
EntryViolated(en, x) ==
    IF en[1] = "g"
    THEN Apply(ineq_constraints.v[en[2]], x) > 0
    ELSE Apply(eq_constraints.v[en[2]], x) > TOL
         \/ Apply(eq_constraints.v[en[2]], x) < 0 - TOL

\* C17: check_constraints evaluates the inequality constraints in list order
\* before any equality constraint and stops at the first violation.
C17_OrderedShortCircuit ==
    call.op = "check_constraints"
        => LET n == Len(call.evals)
           IN /\ n <= NumIneq + NumEq
              /\ \A j \in 1..n : call.evals[j] = OrderEntry(j)
              /\ \A j \in 1..(n - 1) : ~EntryViolated(call.evals[j], call.x)
              /\ call.signal = "False" => (n > 0 /\ EntryViolated(call.evals[n], call.x))
              /\ call.signal = "True" => n = NumIneq + NumEq

C17_Witness ==
    /\ call.op = "check_constraints"
    /\ NumIneq = 2
    /\ NumEq = 1
    /\ call.signal = "False"
    /\ call.evals = <<(<<"g", 1>>)>>

\* the call was a build, explicit or implicit, that succeeded
BuildSucceeded(c, h) ==
    \/ c.op = "build" /\ c.signal = "True"
    \/ c.op = "compute" /\ c.objective # None /\ h.last = "ok"

\* C18: a successful build replaces the whole stored problem spec: the
\* constraint lists are exactly the lists passed to this call and are empty
\* when the argument was omitted.
C18_BuildReplacesConstraints ==
    [][BuildSucceeded(call', hist')
       => /\ objective' = call'.objective
          /\ bounds' = call'.bounds
          /\ call'.ineq_constraints # None => ineq_constraints' = call'.ineq_constraints
          /\ call'.eq_constraints # None => eq_constraints' = call'.eq_constraints
          /\ call'.ineq_constraints = None => Len(ineq_constraints'.v) = 0
          /\ call'.eq_constraints = None => Len(eq_constraints'.v) = 0]_vars

C18_Witness ==
    /\ call.op = "build"
    /\ call.signal = "True"
    /\ call.ineq_constraints = None
    /\ call.eq_constraints # None
    /\ ineq_constraints = EmptyList
    /\ eq_constraints = call.eq_constraints
    /\ NumEq = 2

====
